---------------------------- MODULE Spec2Model ----------------------------
(***************************************************************************)
(* A model of fill_playlist.py: read_track_ids, get_existing_track_ids and *)
(* add_tracks_to_playlist, run against a remote playlist that serves its   *)
(* items in pages by offset and appends the identifiers it is given.       *)
(*                                                                         *)
(* Track identifiers are positive integers in the part that talks to the   *)
(* remote service (they are opaque there), and sequences of one-character  *)
(* strings in the part that parses the tracks file.                        *)
(***************************************************************************)
EXTENDS Integers, Sequences, FiniteSets, TLC

VARIABLES
    playlist,    \* the remote playlist: a sequence of items
    playlist0,   \* the remote playlist when add_tracks_to_playlist was called
    track_ids,   \* the track_ids argument of add_tracks_to_playlist
    pc,          \* where add_tracks_to_playlist is
    existing,    \* get_existing_track_ids: existing
    offset,      \* get_existing_track_ids: offset
    to_add,      \* add_tracks_to_playlist: to_add
    start,       \* add_tracks_to_playlist: start of the for loop
    calls,       \* the remote calls of this run, in call order
    history,     \* the outcomes of the earlier runs, oldest first
    line,        \* read_track_ids: the line just read from the file
    ids,         \* read_track_ids: ids
    emitted,     \* read_track_ids: whether the line just read was appended
    nlines       \* read_track_ids: the number of lines read from the file

vars == <<playlist, playlist0, track_ids, pc, existing, offset, to_add,
          start, calls, history, line, ids, emitted, nlines>>

syncVars == <<playlist, playlist0, track_ids, pc, existing, offset, to_add,
              start, calls, history>>

readVars == <<line, ids, emitted, nlines>>

-----------------------------------------------------------------------------
(* Program constants *)

\* limit = 100 in get_existing_track_ids
limit == 100

\* batch_size = 100 in add_tracks_to_playlist
batch_size == 100

\* Python's None, as the id of a track that has none
None == 0

-----------------------------------------------------------------------------
(* Bounds of the model *)

\* playlists of the paged family have up to MaxPages full pages and one item
MaxPages == 2

\* inputs of the paged family have up to MaxBatches full batches and one id
MaxBatches == 2

\* the small family: every playlist of up to MaxSmallPlaylist items
MaxSmallPlaylist == 1

\* the small family: every input of up to MaxSmallInput identifiers
MaxSmallInput == 3

\* the small family draws its identifiers from 1..MaxSmallId
MaxSmallId == 2

\* the period of the repeating inputs of the paged family
DupPeriod == 7

\* add_tracks_to_playlist is run up to MaxRuns times on the same input
MaxRuns == 3

\* the tracks file has up to MaxLines lines
MaxLines == 1

\* of up to MaxLineLen characters each, the line terminator not counted
MaxLineLen == 3

-----------------------------------------------------------------------------
(* Helpers *)

Min(a, b) == IF a < b THEN a ELSE b

Range(s) == {s[i] : i \in 1..Len(s)}

SeqsUpTo(S, n) == UNION {[1..k -> S] : k \in 0..n}

-----------------------------------------------------------------------------
(* The remote playlist *)

\* an item of a playlist page: {"track": {"id": id}}, {"track": {"id": None}}
\* or {"track": None}
Item(hasTrack, id) == [hasTrack |-> hasTrack, id |-> id]

TrackItem(id) == Item(TRUE, id)

\* sp.playlist_items(playlist_id, offset, limit, fields): the page of up to
\* lim items that starts after the first off items
playlist_items(pl, off, lim) == SubSeq(pl, off + 1, Min(off + lim, Len(pl)))

\* sp.playlist_add_items(playlist_id, items): the playlist with one track
\* per identifier appended, in order
playlist_add_items(pl, items) == pl \o [i \in 1..Len(items) |-> TrackItem(items[i])]

\* a record of one remote call: args is <<offset, limit>> of a page request,
\* or the payload of an append; ok is FALSE when the call raised
Call(op, args, ok) == [op |-> op, args |-> args, ok |-> ok]

-----------------------------------------------------------------------------
(* The inputs of a run *)

SmallItems == {Item(FALSE, None), Item(TRUE, None)} \cup {TrackItem(i) : i \in 1..MaxSmallId}

SmallPlaylists == SeqsUpTo(SmallItems, MaxSmallPlaylist)

SmallInputs == SeqsUpTo(1..MaxSmallId, MaxSmallInput)

\* lengths around the page boundaries: 0, 1, 99, 100, 101, 199, 200, 201
PlaylistLens == {k * limit + d : k \in 0..MaxPages, d \in -1..1} \cap Nat

\* lengths at and past the batch boundaries: 0, 1, 100, 101, 200, 201 (the
\* residues, which are what is batched, take the lengths in between)
InputLens == {k * batch_size + d : k \in 0..MaxBatches, d \in 0..1}

\* the playlist of tracks 1..n; with holes, the items on both sides of every
\* page boundary and the last item are local or removed tracks: the item
\* before a boundary has no track, the others a track without an identifier
MkPlaylist(n, holes) ==
    [i \in 1..n |->
        IF holes /\ (i % limit \in {0, 1} \/ i = n)
        THEN Item(i % limit # 0, None)
        ELSE TrackItem(i)]

\* the input of m identifiers first, first + 1, ..., repeating every period
MkInput(m, first, period) == [j \in 1..m |-> first + ((j - 1) % period)]

PagedPlaylists == {MkPlaylist(n, holes) : n \in PlaylistLens, holes \in BOOLEAN}

PagedInputs ==
    {MkInput(m, first, period) :
        m \in InputLens,
        first \in {1, (limit \div 2) + 1},
        period \in {DupPeriod, (MaxBatches + 1) * batch_size + 1}}

-----------------------------------------------------------------------------
(* get_existing_track_ids *)

\* a variant that tests the track alone: `if track`
HasTrackOnly(item) == item.hasTrack

\* `if track and track.get("id")`: the item has a track and the track an id
HasTrackId(item) == item.hasTrack /\ item.id # None

\* the identifiers the for loop over a page's items adds to existing
PageIds(items) == {items[i].id : i \in {j \in 1..Len(items) : HasTrackId(items[j])}}

\* a variant that stops at the first empty page: `if not items: break`
LastPageWhenEmpty(items) == Len(items) = 0

\* a variant without pagination: the loop ends after the first page
LastPageAlways(items) == TRUE

\* `if len(items) < limit: break`
LastPage(items) == Len(items) < limit

\* a variant that assigns instead of adding: offset = limit
NextOffsetAssigned(off) == limit

\* offset += limit
NextOffset(off) == off + limit

\* add_tracks_to_playlist is called: existing = set(), offset = 0
CallAddTracks ==
    /\ pc = "call"
    /\ existing' = {}
    /\ offset' = 0
    /\ pc' = "fetch"
    /\ UNCHANGED <<playlist, playlist0, track_ids, to_add, start, calls, history>>
    /\ UNCHANGED readVars

\* one iteration of the while loop: request a page, add its identifiers,
\* advance the offset, leave the loop after a short page
FetchPage ==
    /\ pc = "fetch"
    /\ LET items == playlist_items(playlist, offset, limit) IN
        /\ calls' = Append(calls, Call("playlist_items", <<offset, limit>>, TRUE))
        /\ existing' = existing \cup PageIds(items)
        /\ offset' = NextOffset(offset)
        /\ pc' = IF LastPage(items) THEN "filter" ELSE "fetch"
    /\ UNCHANGED <<playlist, playlist0, track_ids, to_add, start, history>>
    /\ UNCHANGED readVars

\* sp.playlist_items raises: nothing catches it, the run ends
FetchPageRaises ==
    /\ pc = "fetch"
    /\ calls' = Append(calls, Call("playlist_items", <<offset, limit>>, FALSE))
    /\ pc' = "fetch_raised"
    /\ UNCHANGED <<playlist, playlist0, track_ids, existing, offset, to_add, start, history>>
    /\ UNCHANGED readVars

-----------------------------------------------------------------------------
(* add_tracks_to_playlist *)

\* a variant that also drops the later occurrences of an identifier, as a
\* set difference would
RECURSIVE FirstOccurrences(_, _, _, _)
FirstOccurrences(tids, ex, lo, hi) ==
    IF lo > hi THEN << >>
    ELSE IF lo = hi
    THEN IF tids[lo] \notin ex /\ \A i \in 1..(lo - 1) : tids[i] # tids[lo]
         THEN <<tids[lo]>> ELSE << >>
    ELSE LET mid == (lo + hi) \div 2 IN
         FirstOccurrences(tids, ex, lo, mid) \o FirstOccurrences(tids, ex, mid + 1, hi)

NewTracksDeduplicated(tids, ex) == FirstOccurrences(tids, ex, 1, Len(tids))

\* [tid for tid in track_ids if tid not in existing]
NewTracks(tids, ex) == SelectSeq(tids, LAMBDA tid : tid \notin ex)

\* a variant whose slice is one too long: to_add[start : start + batch_size + 1]
BatchOneTooLong(s, st) == SubSeq(s, st + 1, Min(st + batch_size + 1, Len(s)))

\* to_add[start : start + batch_size]
Batch(s, st) == SubSeq(s, st + 1, Min(st + batch_size, Len(s)))

\* range(0, len(to_add), batch_size): the start after st
NextStart(st) == st + batch_size

\* a variant without the early return of an empty to_add
FilterTracksNoReturn ==
    /\ pc = "filter"
    /\ to_add' = NewTracks(track_ids, existing)
    /\ start' = 0
    /\ pc' = "append"
    /\ UNCHANGED <<playlist, playlist0, track_ids, existing, offset, calls, history>>
    /\ UNCHANGED readVars

\* to_add is built; an empty to_add returns at once
FilterTracks ==
    /\ pc = "filter"
    /\ to_add' = NewTracks(track_ids, existing)
    /\ start' = 0
    /\ pc' = IF to_add' = <<>> THEN "noop" ELSE "append"
    /\ UNCHANGED <<playlist, playlist0, track_ids, existing, offset, calls, history>>
    /\ UNCHANGED readVars

\* a variant that adds each appended batch to existing
AppendBatchRefreshing ==
    /\ pc = "append"
    /\ LET batch == Batch(to_add, start) IN
        /\ calls' = Append(calls, Call("playlist_add_items", batch, TRUE))
        /\ playlist' = playlist_add_items(playlist, batch)
        /\ existing' = existing \cup Range(batch)
    /\ start' = NextStart(start)
    /\ pc' = IF start' < Len(to_add) THEN "append" ELSE "done"
    /\ UNCHANGED <<playlist0, track_ids, offset, to_add, history>>
    /\ UNCHANGED readVars

\* one iteration of the for loop, the remote call succeeding
AppendBatch ==
    /\ pc = "append"
    /\ LET batch == Batch(to_add, start) IN
        /\ calls' = Append(calls, Call("playlist_add_items", batch, TRUE))
        /\ playlist' = playlist_add_items(playlist, batch)
    /\ start' = NextStart(start)
    /\ pc' = IF start' < Len(to_add) THEN "append" ELSE "done"
    /\ UNCHANGED <<playlist0, track_ids, existing, offset, to_add, history>>
    /\ UNCHANGED readVars

\* a variant that catches the failure of a batch and goes on to the next
AppendBatchRaisesCaught ==
    /\ pc = "append"
    /\ calls' = Append(calls, Call("playlist_add_items", Batch(to_add, start), FALSE))
    /\ start' = NextStart(start)
    /\ pc' = IF start' < Len(to_add) THEN "append" ELSE "done"
    /\ UNCHANGED <<playlist, playlist0, track_ids, existing, offset, to_add, history>>
    /\ UNCHANGED readVars

\* sp.playlist_add_items raises: nothing catches it, the run ends and the
\* remote playlist is as the completed calls left it
AppendBatchRaises ==
    /\ pc = "append"
    /\ calls' = Append(calls, Call("playlist_add_items", Batch(to_add, start), FALSE))
    /\ pc' = "append_raised"
    /\ UNCHANGED <<playlist, playlist0, track_ids, existing, offset, to_add, start, history>>
    /\ UNCHANGED readVars

-----------------------------------------------------------------------------
(* Runs *)

Returned == {"noop", "done"}

Raised == {"fetch_raised", "append_raised"}

\* the identifiers of the append calls of this run that completed
AddedIds == UNION {Range(calls[i].args) :
                    i \in {j \in 1..Len(calls) :
                            calls[j].op = "playlist_add_items" /\ calls[j].ok}}

\* the script is run again, on the same tracks file and playlist
RunAgain ==
    /\ pc \in Returned \cup Raised
    /\ Len(history) + 1 < MaxRuns
    /\ history' = Append(history, [outcome |-> pc, added |-> AddedIds])
    /\ playlist0' = playlist
    /\ pc' = "call"
    /\ existing' = {}
    /\ offset' = 0
    /\ to_add' = <<>>
    /\ start' = 0
    /\ calls' = <<>>
    /\ UNCHANGED <<playlist, track_ids>>
    /\ UNCHANGED readVars

Init ==
    /\ \E in \in (SmallPlaylists \X SmallInputs) \cup (PagedPlaylists \X PagedInputs) :
        /\ playlist = in[1]
        /\ playlist0 = in[1]
        /\ track_ids = in[2]
    /\ pc = "call"
    /\ existing = {}
    /\ offset = 0
    /\ to_add = <<>>
    /\ start = 0
    /\ calls = <<>>
    /\ history = <<>>
    /\ line = <<>>
    /\ ids = <<>>
    /\ emitted = FALSE
    /\ nlines = 0

Next ==
    \/ CallAddTracks
    \/ FetchPage
    \/ FetchPageRaises
    \/ FilterTracks
    \/ AppendBatch
    \/ AppendBatchRaises
    \/ RunAgain

Spec == Init /\ [][Next]_vars

-----------------------------------------------------------------------------
(* read_track_ids *)

\* a line is a sequence of characters; these are the characters of the model
Alphabet == {"a", ":", "#", " "}

\* the characters str.strip() removes
Whitespace == {" ", "\t", "\n", "\r"}

\* the text of a line, without its terminator
Texts == SeqsUpTo(Alphabet, MaxLineLen)

\* the lines `for line in f` yields: a text and its newline, or, as the
\* last line of a file that does not end in a newline, the text alone
RawLines == {t \o end : t \in Texts, end \in {<<"\n">>, <<>>}} \ {<< >>}

\* line.strip()
Strip(s) ==
    LET keep == {i \in 1..Len(s) : s[i] \notin Whitespace} IN
    IF keep = {} THEN << >>
    ELSE SubSeq(s, CHOOSE i \in keep : \A j \in keep : i <= j,
                   CHOOSE i \in keep : \A j \in keep : i >= j)

\* line.startswith(prefix), prefix one character
StartsWith(s, c) == Len(s) > 0 /\ s[1] = c

\* line.split(sep): the parts between the separators, in order
RECURSIVE Split(_, _)
Split(s, sep) ==
    LET at == {i \in 1..Len(s) : s[i] = sep} IN
    IF at = {} THEN <<s>>
    ELSE LET i == CHOOSE k \in at : \A j \in at : k <= j IN
         <<SubSeq(s, 1, i - 1)>> \o Split(SubSeq(s, i + 1, Len(s)), sep)

\* a variant that takes the first part: parts[0]
TrackIdFirstPart(l) ==
    IF ":" \in Range(l)
    THEN LET parts == Split(l, ":") IN parts[1]
    ELSE l

\* the identifier of a stripped line: parts[-1] of a line with a colon, or
\* the line
TrackId(l) ==
    IF ":" \in Range(l)
    THEN LET parts == Split(l, ":") IN parts[Len(parts)]
    ELSE l

\* `if not line or line.startswith("#"): continue`
Skipped(l) == l = << >> \/ StartsWith(l, "#")

\* one iteration of the for loop over the file's lines
ReadLine(raw) ==
    /\ pc = "read"
    /\ nlines < MaxLines
    /\ nlines > 0 => line[Len(line)] = "\n"
    /\ line' = raw
    /\ nlines' = nlines + 1
    /\ LET l == Strip(raw) IN
        IF ~Skipped(l) /\ TrackId(l) # << >>
        THEN ids' = Append(ids, TrackId(l)) /\ emitted' = TRUE
        ELSE ids' = ids /\ emitted' = FALSE
    /\ UNCHANGED syncVars

InitRead ==
    /\ playlist = << >>
    /\ playlist0 = << >>
    /\ track_ids = << >>
    /\ pc = "read"
    /\ existing = {}
    /\ offset = 0
    /\ to_add = << >>
    /\ start = 0
    /\ calls = << >>
    /\ history = << >>
    /\ line = << >>
    /\ ids = << >>
    /\ emitted = FALSE
    /\ nlines = 0

NextRead == \E raw \in RawLines : ReadLine(raw)

SpecRead == InitRead /\ [][NextRead]_vars

-----------------------------------------------------------------------------
(* What the claims speak of *)

\* the page requests and the append calls of this run, in call order
ItemsCalls == SelectSeq(calls, LAMBDA c : c.op = "playlist_items")

AddCalls == SelectSeq(calls, LAMBDA c : c.op = "playlist_add_items")

\* the payloads of a sequence of calls, concatenated in call order
Payloads(cs) ==
    LET F[k \in 0..Len(cs)] == IF k = 0 THEN << >> ELSE F[k - 1] \o cs[k].args
    IN F[Len(cs)]

\* s with the members of ex removed: order and repetitions kept
\* (computed by halves: the part of s[lo..hi] that is outside ex)
RECURSIVE ResidueOf(_, _, _, _)
ResidueOf(s, ex, lo, hi) ==
    IF lo > hi THEN << >>
    ELSE IF lo = hi THEN (IF s[lo] \in ex THEN << >> ELSE <<s[lo]>>)
    ELSE LET mid == (lo + hi) \div 2 IN
         ResidueOf(s, ex, lo, mid) \o ResidueOf(s, ex, mid + 1, hi)

Residue(s, ex) == ResidueOf(s, ex, 1, Len(s))

IsPrefix(s, t) == Len(s) <= Len(t) /\ s = SubSeq(t, 1, Len(s))

\* the identifiers of the items of pl that have a track with an identifier
TrackIdsOf(pl) == {pl[i].id : i \in {j \in DOMAIN pl : pl[j].hasTrack /\ pl[j].id # None}}

\* the places of add_tracks_to_playlist after get_existing_track_ids returned
AfterFetch == {"filter", "noop", "append", "done", "append_raised"}

\* the places after to_add was built
AfterFilter == {"noop", "append", "done", "append_raised"}

HasRepetition(s) == \E i, j \in DOMAIN s : i < j /\ s[i] = s[j]

-----------------------------------------------------------------------------
(* C1: the payloads passed to playlist_add_items, concatenated in call     *)
(* order, are the input sequence with exactly the members of the snapshot  *)
(* removed: order kept, repetitions of an identifier outside the snapshot  *)
(* kept. While the run appends (or after a batch failed) the payloads so   *)
(* far are a prefix of that sequence; when the run returns they are all of *)
(* it.                                                                     *)
C1_PayloadsAreResidue ==
    pc \in AfterFilter =>
        LET sent == Payloads(AddCalls)
            residue == Residue(track_ids, existing)
        IN /\ IsPrefix(sent, residue)
           /\ pc \in Returned => sent = residue

\* a run that returned after several batches, with an identifier filtered
\* out and a repeated identifier sent
C1_Witness ==
    /\ pc = "done"
    /\ Len(AddCalls) >= 2
    /\ Range(track_ids) \cap existing # {}
    /\ HasRepetition(Payloads(AddCalls))

(* C2: a residue of length L > 0 is sent in exactly ceil(L/100) calls; the *)
(* k-th call carries the k-th slice of 100 of the residue, so every call   *)
(* carries 1 to 100 identifiers and every call but the last exactly 100.   *)
C2_Batches ==
    LET A == AddCalls
        L == Len(to_add)
    IN /\ \A k \in 1..Len(A) :
            /\ A[k].args = SubSeq(to_add, 100 * (k - 1) + 1, Min(100 * k, L))
            /\ Len(A[k].args) \in 1..100
            /\ k < Len(A) => Len(A[k].args) = 100
       /\ pc = "done" => L > 0 /\ Len(A) = (L + 99) \div 100

\* a residue of 150 identifiers went out as 100 and then 50
C2_Witness ==
    /\ pc = "done"
    /\ Len(to_add) = 150
    /\ Len(AddCalls) = 2
    /\ Len(AddCalls[1].args) = 100
    /\ Len(AddCalls[2].args) = 50

(* C3: when get_existing_track_ids returns, existing is exactly the set of *)
(* the identifiers of the playlist's items that have a track with an       *)
(* identifier, whatever the number of pages.                               *)
C3_ExistingIsPlaylist ==
    pc = "filter" => existing = TrackIdsOf(playlist)

\* a playlist of more than two pages, with an item without a track and an
\* item whose track has no identifier
C3_Witness ==
    /\ pc = "filter"
    /\ Len(playlist) > 2 * 100
    /\ \E i \in DOMAIN playlist : ~playlist[i].hasTrack
    /\ \E i \in DOMAIN playlist : playlist[i].hasTrack /\ playlist[i].id = None
    /\ existing # {}

(* C4: for a playlist of N + 1 tracks, N a multiple of 100, the run issues *)
(* exactly ceil((N + 1) / 100) page requests: every page before the last   *)
(* request was full, the last was short, and no request follows it.        *)
C4_PageRequests ==
    (pc \in AfterFetch /\ Len(playlist0) % 100 = 1) =>
        /\ Len(ItemsCalls) = (Len(playlist0) + 99) \div 100
        /\ \A k \in 1..Len(ItemsCalls) :
            (Len(playlist0) - ItemsCalls[k].args[1] < 100) <=> k = Len(ItemsCalls)

\* a playlist of 201 tracks was fetched in three requests
C4_Witness ==
    /\ pc = "filter"
    /\ Len(playlist0) = 201
    /\ Len(ItemsCalls) = 3

(* C5: within a run every page request precedes every append call, and     *)
(* while the run appends, existing is still the set fetched from the       *)
(* playlist as it was before the first append: what earlier batches added  *)
(* is not in it.                                                           *)
C5_SnapshotOnce ==
    /\ \A i, j \in DOMAIN calls :
        (i < j /\ calls[j].op = "playlist_items") => calls[i].op = "playlist_items"
    /\ pc \in AfterFilter =>
        /\ existing = TrackIdsOf(playlist0)
        /\ to_add = Residue(track_ids, TrackIdsOf(playlist0))

\* a later batch holds an identifier that an earlier batch of the run added
C5_Witness ==
    /\ pc = "append"
    /\ start > 0
    /\ Range(Batch(to_add, start)) \cap (TrackIdsOf(playlist) \ existing) # {}

(* C6: when every identifier of the input is in the existing-set (an empty *)
(* input included), the run issues no append call and returns the no-op    *)
(* outcome.                                                                *)
C6_NoOp ==
    (pc \in AfterFilter /\ Range(track_ids) \subseteq existing) =>
        pc = "noop" /\ AddCalls = << >>

\* a non-empty input, all of it in the playlist, was a no-op
C6_Witness ==
    /\ pc = "noop"
    /\ track_ids # << >>
    /\ Range(track_ids) \subseteq existing
    /\ Len(ItemsCalls) >= 1

(* C7: a call that raised is the last call of its run (no later batch, no  *)
(* retry); when the append of batch k raised, the run ended in failure,    *)
(* the calls before it are the batches 1..k-1, and the playlist is the     *)
(* playlist of the start of the run with exactly those batches appended.   *)
C7_AbortOnFailure ==
    /\ \A i \in DOMAIN calls : ~calls[i].ok => i = Len(calls)
    /\ (\E i \in DOMAIN calls : calls[i].op = "playlist_add_items" /\ ~calls[i].ok) =>
        /\ pc = "append_raised"
        /\ LET k == Len(AddCalls)
               completed == SubSeq(to_add, 1, 100 * (k - 1))
           IN /\ Payloads(SubSeq(AddCalls, 1, k - 1)) = completed
              /\ AddCalls[k].args = SubSeq(to_add, 100 * (k - 1) + 1, Min(100 * k, Len(to_add)))
              /\ Len(playlist) = Len(playlist0) + Len(completed)
              /\ SubSeq(playlist, 1, Len(playlist0)) = playlist0
              /\ \A i \in DOMAIN completed :
                    playlist[Len(playlist0) + i] = TrackItem(completed[i])

\* the second batch raised after the first completed
C7_Witness ==
    /\ pc = "append_raised"
    /\ Len(AddCalls) = 2
    /\ AddCalls[1].ok
    /\ ~AddCalls[2].ok
    /\ Len(playlist) = Len(playlist0) + 100

(* C8: in the run after a run that an append aborted, existing holds what  *)
(* the aborted run's completed batches added, no append call carries such  *)
(* an identifier, and when the run returns every input identifier is in    *)
(* the playlist; the run after that issues no append call and is a no-op.  *)
C8_Resumption ==
    LET n == Len(history) IN
    /\ (n >= 1 /\ history[n].outcome = "append_raised") =>
        /\ pc \in AfterFetch => history[n].added \subseteq existing
        /\ \A k \in DOMAIN AddCalls : Range(AddCalls[k].args) \cap history[n].added = {}
        /\ pc \in Returned => Range(track_ids) \subseteq TrackIdsOf(playlist)
    /\ (n >= 2 /\ history[n - 1].outcome = "append_raised" /\ history[n].outcome \in Returned) =>
        /\ AddCalls = << >>
        /\ pc \in AfterFilter => pc = "noop"

\* an aborted run that had added a batch, a rerun that appended the rest,
\* and a third run that found nothing to add
C8_Witness ==
    /\ Len(history) = 2
    /\ history[1].outcome = "append_raised"
    /\ history[1].added # {}
    /\ history[2].outcome = "done"
    /\ history[2].added # {}
    /\ pc = "noop"

(* C10: the k-th page request of a run has offset 100 * (k - 1) and limit  *)
(* 100.                                                                    *)
C10_Offsets ==
    \A k \in DOMAIN ItemsCalls : ItemsCalls[k].args = <<100 * (k - 1), 100>>

\* a run that requested three pages
C10_Witness ==
    /\ pc = "filter"
    /\ Len(ItemsCalls) >= 3

-----------------------------------------------------------------------------
(* The claim about read_track_ids *)

\* the text of a line read from the file, without its newline
LineText(raw) ==
    IF Len(raw) > 0 /\ raw[Len(raw)] = "\n" THEN SubSeq(raw, 1, Len(raw) - 1) ELSE raw

\* the characters of s after its last colon
AfterLastColon(s) ==
    LET at == {i \in 1..Len(s) : s[i] = ":"}
        last == CHOOSE i \in at : \A j \in at : i >= j
    IN SubSeq(s, last + 1, Len(s))

(* C9 as stated: the identifier produced for a line that contains a colon  *)
(* is what follows the last colon of the line.                             *)
C9_AfterLastColonOfLine ==
    (emitted /\ ":" \in Range(line)) =>
        ids[Len(ids)] = AfterLastColon(LineText(line))

(* C9, amended: the identifier produced for a line that contains a colon   *)
(* is what follows the last colon of the line once its leading and         *)
(* trailing whitespace is removed.                                         *)
C9_AfterLastColonOfStrippedLine ==
    (emitted /\ ":" \in Range(line)) =>
        /\ Len(ids) > 0
        /\ ids[Len(ids)] = AfterLastColon(Strip(line))

\* a line with a colon and whitespace around its text produced an identifier
C9_Witness ==
    /\ emitted
    /\ ":" \in Range(line)
    /\ Strip(line) # LineText(line)

=============================================================================
